---- MODULE Spec2Model ----
(***************************************************************************)
(* State-machine model of the lazor-kit-playground pages.                  *)
(*                                                                         *)
(* Spec          the subscribe page (src/app/subscribe/page.tsx):          *)
(*               createMandate, executeSubscriptionChunk, executePayment,  *)
(*               the 10 s reveal timer and the buttons of the plan cards.  *)
(* NavSpec       the subscribe page with the user navigating away.         *)
(* SpecTransfer  the transfer page (src/app/transfer/page.tsx): handleSend,*)
(*               the form, the mount delay and the redirect.               *)
(* SpecWallet    the wallet page: handleConnect and the status line.       *)
(* SpecDetails   the wallet details page (src/app/components/Navbar.tsx):  *)
(*               the mount delay, the redirect and the balance query.      *)
(* SpecToken     toTokenAmount (src/lib/utils.ts) called on a set of       *)
(*               arguments.                                                *)
(* SpecApp       the pages together, one page in use at a time.            *)
(*                                                                         *)
(* Time: the clock `now` counts units of 100 ms, so that 30 days still fit *)
(* the model checker's integers.  Date.now() is 100 * now milliseconds,    *)
(* Math.floor(Date.now() / 1000) is now \div 10, and a setTimeout of d ms  *)
(* is due d \div 100 units later.                                          *)
(*                                                                         *)
(* JavaScript objects are functions whose DOMAIN is the set of keys that   *)
(* are present; a missing key reads as undefined.                          *)
(***************************************************************************)
EXTENDS Integers, Sequences, FiniteSets, TLC

(***************************************************************************)
(* Bounds of the exploration.                                              *)
(***************************************************************************)
MaxTicks == 1
MaxAttempts == 2
MaxInFlight == 2

(***************************************************************************)
(* Configuration constants and the plan table.                             *)
(***************************************************************************)
USDC_MINT == "4zMMC9srt5Ri5X14GAgXhaHii3GnPAEERYPJgZJDncDU"
MERCHANT_WALLET == "4iw7w6aME8sfpf1F1LP3EybyLrtbp7PF9TjBT6fhCKdB"
PAYMASTER_PAYER_KORA == "7Pkkhm8YeoBXFGKHTJXJ8ckdYiqtPdVWMefEVqK5vXed"

\* A decimal number num / 10^scale (plan prices are 0.05, 10 and 100).
Dec(num, scale) == [num |-> num, scale |-> scale]

PLANS ==
  << [id |-> "basic",  label |-> "Basic",  price |-> Dec(5, 2),   intervalDays |-> 30],
     [id |-> "pro",    label |-> "Pro",    price |-> Dec(10, 0),  intervalDays |-> 30],
     [id |-> "annual", label |-> "Annual", price |-> Dec(100, 0), intervalDays |-> 365] >>

PlanIds == {PLANS[i].id : i \in DOMAIN PLANS}
PlanOf(id) == CHOOSE pl \in {PLANS[i] : i \in DOMAIN PLANS} : pl.id = id

USDC_DECIMALS == 6
COMPUTE_UNIT_LIMIT == 300000
REVEAL_DELAY_MS == 10000

(***************************************************************************)
(* The wallet session the SDK's useWallet() hook presents to the page.     *)
(***************************************************************************)
\* null, and the public key of the user's smart wallet (values that may be
\* null are tuples, so that they compare with null)
Null == <<"null">>
\* new PublicKey(base58)
PublicKey(base58) == <<"PublicKey", base58>>
WalletKeys == {PublicKey("smartWallet")}
WalletRecord(w) ==
  [smartWallet |-> w, credentialId |-> <<"credentialId", w>>,
   passkeyPubkey |-> <<"passkeyPubkey", w>>]

Disconnected == [isConnected |-> FALSE, smartWalletPubkey |-> Null, wallet |-> Null]
\* `wallet` holds the key of the wallet record; WalletRecord gives its fields
Connected(w) == [isConnected |-> TRUE, smartWalletPubkey |-> w, wallet |-> w]
\* isConnected already reported while the wallet record is not there yet
ConnectedNoWallet == [isConnected |-> TRUE, smartWalletPubkey |-> Null, wallet |-> Null]
Sessions == {Disconnected, ConnectedNoWallet} \cup {Connected(w) : w \in WalletKeys}

(***************************************************************************)
(* Pure helpers.                                                           *)
(***************************************************************************)
RECURSIVE Pow10(_)
Pow10(n) == IF n = 0 THEN 1 ELSE 10 * Pow10(n - 1)

\* a number is num / 10^scale (num * 10^-scale for a negative scale); it is an
\* integer when the division leaves no remainder
IsInteger(number) == number.scale <= 0 \/ number.num % Pow10(number.scale) = 0
IntegerOf(number) == number.num \div Pow10(number.scale)

RECURSIVE NumDigits(_)
NumDigits(n) == IF n < 10 THEN 1 ELSE 1 + NumDigits(n \div 10)

\* amount * Math.pow(10, decimals) >= 1e21
ProductAtLeast1e21(amount, decimals) ==
  amount.num > 0 /\ NumDigits(amount.num) + decimals - amount.scale >= 22

\* variant: the product is cut, not rounded
RoundedProduct_Floor(amount, decimals) ==
  IF amount.scale <= decimals
    THEN amount.num * Pow10(decimals - amount.scale)
    ELSE amount.num \div Pow10(amount.scale - decimals)

\* amount * 10^decimals rounded to the nearest integer, halves upwards
RoundedProduct(amount, decimals) ==
  IF amount.scale <= decimals
    THEN amount.num * Pow10(decimals - amount.scale)
    ELSE LET m == Pow10(amount.scale - decimals)
         IN (amount.num \div m) + (IF 2 * (amount.num % m) >= m THEN 1 ELSE 0)

\* (amount * Math.pow(10, decimals)).toFixed(0): the digits of the rounded
\* product, but exponent notation from 1e21 on
ToFixedZero(amount, decimals) ==
  IF ProductAtLeast1e21(amount, decimals)
    THEN <<"exponent", amount.num, decimals - amount.scale>>
    ELSE <<"digits", RoundedProduct(amount, decimals)>>

\* new BN(str): the integer of a string of digits; of any other string an
\* exception or a wrong number, by the version of bn.js
BN(str) == IF str[1] = "digits" THEN <<"BN", str[2]>> ELSE <<"BN of", str>>
Throws(message) == <<"throws", message>>

\* toTokenAmount(amount, decimals), both arguments numbers
ToTokenAmount(amount, decimals) ==
  IF amount.num < 0 THEN Throws("Amount cannot be negative")
  ELSE IF decimals.num < 0 \/ ~IsInteger(decimals)
    THEN Throws("Decimals must be a non-negative integer")
  ELSE BN(ToFixedZero(amount, IntegerOf(decimals)))

\* new Connection(RPC_URL): a handle of its own, the nth one made
NewConnection(n) == <<"Connection", n>>

\* variant: every call makes a handle
GetConnection_NoCache(current) ==
  NewConnection(IF current = Null THEN 1 ELSE current[2] + 1)

\* getConnection(): the value it returns, which is also what the module-level
\* variable holds afterwards
GetConnection(current) ==
  IF current = Null THEN NewConnection(1) ELSE current

\* new LazorkitClient(connection)
LazorkitClient(conn) == <<"LazorkitClient", conn>>

GetAssociatedTokenAddress(mint, owner) == <<"ata", mint, owner>>

CreateUsdcTransferIx(owner, recipient, amount) ==
  [program  |-> "transferChecked",
   source   |-> GetAssociatedTokenAddress(PublicKey(USDC_MINT), owner),
   mint     |-> PublicKey(USDC_MINT),
   dest     |-> GetAssociatedTokenAddress(PublicKey(USDC_MINT), recipient),
   owner    |-> owner,
   amount   |-> ToTokenAmount(amount, Dec(USDC_DECIMALS, 0)),
   decimals |-> USDC_DECIMALS]

CredentialHashFromBase64(credentialId) == <<"credentialHash", credentialId>>
AsPasskeyPublicKey(pk) == <<"PasskeyPublicKey", pk>>

\* Math.floor(Date.now() / 1000) at clock value t
UnixSeconds(t) == t \div 10

\* variant: the expiry follows the plan's billing interval
ExpirationTimestamp_PlanInterval(t, plan) ==
  UnixSeconds(t) + plan.intervalDays * 24 * 60 * 60

\* createMandate: Math.floor(new Date().getTime() / 1000) + 30 * 24 * 60 * 60
ExpirationTimestamp(t, plan) == UnixSeconds(t) + 30 * 24 * 60 * 60

(***************************************************************************)
(* State.                                                                  *)
(***************************************************************************)
VARIABLES
  now,         \* the clock, in units of 100 ms
  ticks,       \* number of clock advances so far (bounded by MaxTicks)
  session,     \* what useWallet() returns: isConnected, smartWalletPubkey, wallet
  mounted,     \* the subscribe page component is mounted
  planStates,  \* useState: plan id -> object with the keys set so far
  createFlow,  \* per plan: the createMandate invocation (its position and locals)
  execFlow,    \* per plan: the executePayment invocation (its position and locals)
  timers,      \* pending setTimeout callbacks: [plan, due]
  sigCount,    \* number of transactions the paymaster has sent
  attempts,    \* number of handler invocations so far (bounded by MaxAttempts)
  connection   \* the module-level `let connection` behind getConnection

subVars == <<now, ticks, session, mounted, planStates, createFlow, execFlow,
             timers, sigCount, attempts, connection>>

\* the transfer page
VARIABLES
  walletFlags, \* useWallet(): isLoading, isSigning, isConnecting
  recipient,   \* useState(""): the recipient input
  amount,      \* useState(""): the amount input (the string of a number input)
  status,      \* useState("idle"): idle | sending | success | error
  errorMsg,    \* useState(null)
  successMsg,  \* useState(null)
  signature,   \* useState(null)
  sendFlow,    \* the handleSend invocation awaiting signAndSendTransaction
  transferOpen,       \* the page component is mounted (no redirect has happened)
  isMountedTransfer,  \* useState(false): isMounted of the transfer page
  mountTimerTransfer  \* the pending mount timer of the transfer page: << >> or <<due>>

\* what the mount delay and the redirect of the transfer page work on
pageVarsTransfer == <<transferOpen, isMountedTransfer, mountTimerTransfer>>

transferVars == <<walletFlags, recipient, amount, status, errorMsg, successMsg,
                  signature, sendFlow, pageVarsTransfer>>

\* the wallet page
VARIABLES
  walletError, \* useWallet().error
  connectFlow, \* the handleConnect invocation awaiting connect()
  route        \* the route the router shows, after a router.push of the wallet page

walletVars == <<walletError, connectFlow, route>>

\* the wallet details page
VARIABLES
  detailsOpen,      \* the page component is mounted (no redirect has happened)
  isMounted,        \* useState(false), set by the 100 ms mount timer
  mountTimer,       \* the pending mount timer: << >> or <<due>>
  balance,          \* useState(null): the balance in SOL
  isLoadingBalance, \* useState(true)
  balanceFlow,      \* the fetchBalance invocation awaiting connection.getBalance
  balanceQueries    \* number of connection.getBalance calls of this mount

detailsVars == <<detailsOpen, isMounted, mountTimer, balance, isLoadingBalance,
                 balanceFlow, balanceQueries>>

\* a call of toTokenAmount
VARIABLES
  tokenAmount,   \* the amount argument
  tokenDecimals, \* the decimals argument
  tokenResult    \* << >> before the call, then <<what the call returned or threw>>

tokenVars == <<tokenAmount, tokenDecimals, tokenResult>>

Idle == [pc |-> "idle"]
EmptyObject == <<>>

(***************************************************************************)
(* Reading and updating planStates.                                        *)
(***************************************************************************)
\* prev[plan.id], spread: undefined spreads to no keys
PrevEntry(prev, id) == IF id \in DOMAIN prev THEN prev[id] ELSE EmptyObject

\* variant: (prev) => ({ [id]: { ...prev[id], ...patch } })
Merge_DropsOthers(prev, id, patch) == id :> (patch @@ PrevEntry(prev, id))

\* (prev) => ({ ...prev, [id]: { ...prev[id], ...patch } })
Merge(prev, id, patch) == (id :> (patch @@ PrevEntry(prev, id))) @@ prev

\* setPlanStates with a functional updater; React drops updates of an
\* unmounted component
SetPlanStates(id, patch) ==
  IF mounted THEN Merge(planStates, id, patch) ELSE planStates

\* const state = planStates[plan.id] || { ...all null/false }
DefaultState ==
  [mandateSignature |-> Null, showExecuteButton |-> FALSE,
   isCreatingMandate |-> FALSE, isExecuting |-> FALSE, expiresAt |-> Null]
RenderState(id) == IF id \in DOMAIN planStates THEN planStates[id] ELSE DefaultState

\* truthiness of a boolean key and of the signature (a transaction signature
\* is a non-empty string)
IsTrue(obj, key) == key \in DOMAIN obj /\ obj[key] = TRUE
HasSignature(obj) ==
  "mandateSignature" \in DOMAIN obj /\ obj.mandateSignature # Null

\* variant: disabled={state.isCreatingMandate}
SubscribeDisabled_OnlyWhileCreating(id) ==
  IsTrue(RenderState(id), "isCreatingMandate")

\* disabled={state.isCreatingMandate || !!state.mandateSignature}
SubscribeDisabled(id) ==
  IsTrue(RenderState(id), "isCreatingMandate") \/ HasSignature(RenderState(id))

\* {state.showExecuteButton && <button ... disabled={state.isExecuting}>}
ExecuteShown(id) == IsTrue(RenderState(id), "showExecuteButton")
ExecuteDisabled(id) == IsTrue(RenderState(id), "isExecuting")

\* if (!isConnected) return <p>Connect your LazorKit wallet ...</p>
PlanCardsRendered == mounted /\ session.isConnected

\* variant: if (!isConnected) return;
WalletGuardPasses_OnlyConnected == session.isConnected

\* if (!smartWalletPubkey || !isConnected || !wallet) return;
WalletGuardPasses ==
  session.smartWalletPubkey # Null /\ session.isConnected /\ session.wallet # Null

\* paymaster.signAndSend resolves with the signature of the sent transaction
NextSignature == <<"signature", sigCount + 1>>

InFlight(f) == f.pc \notin {"idle", "done", "failed"}
InFlightCount ==
  Cardinality({p \in PlanIds : InFlight(createFlow[p])})
    + Cardinality({p \in PlanIds : InFlight(execFlow[p])})

\* exploration bounds on the handler invocations
MayStart == attempts < MaxAttempts /\ InFlightCount < MaxInFlight

\* the clock value at which the pages are rendered first
FirstRenderAt == 7

\* the subscribe page after its first render
SubscribeInit ==
  /\ now = FirstRenderAt
  /\ ticks = 0
  /\ session \in Sessions
  /\ mounted = TRUE
  /\ planStates = EmptyObject
  /\ createFlow = [p \in PlanIds |-> Idle]
  /\ execFlow = [p \in PlanIds |-> Idle]
  /\ timers = {}
  /\ sigCount = 0
  /\ attempts = 0
  /\ connection = Null

MOUNT_DELAY_MS == 100

\* the transfer page after its first render: the mount timer is set
TransferInit ==
  /\ walletFlags = [isLoading |-> FALSE, isSigning |-> FALSE, isConnecting |-> FALSE]
  /\ recipient = ""
  /\ amount = ""
  /\ status = "idle"
  /\ errorMsg = Null
  /\ successMsg = Null
  /\ signature = Null
  /\ sendFlow = Idle
  /\ transferOpen = TRUE
  /\ isMountedTransfer = FALSE
  /\ mountTimerTransfer = <<now + MOUNT_DELAY_MS \div 100>>

\* the wallet page after its first render
WalletInit ==
  /\ walletError = Null
  /\ connectFlow = Idle
  /\ route = "/wallet"

\* the details page after its first render: the mount timer is set, the
\* fetch effect has run with isMounted = false and done nothing
DetailsInit ==
  /\ detailsOpen = TRUE
  /\ isMounted = FALSE
  /\ mountTimer = <<now + MOUNT_DELAY_MS \div 100>>
  /\ balance = Null
  /\ isLoadingBalance = TRUE
  /\ balanceFlow = Idle
  /\ balanceQueries = 0

\* the arguments toTokenAmount is called with
TokenAmounts ==
  {Dec(0, 0), Dec(5, 2), Dec(10, 0), Dec(100, 0), Dec(1, 6), Dec(14, 7), Dec(16, 7),
   Dec(123456, 3), Dec(-1, 0), Dec(-5, 2), Dec(1, -21)}
TokenDecimals == {Dec(0, 0), Dec(2, 0), Dec(3, 0), Dec(6, 0), Dec(-1, 0), Dec(15, 1)}

\* the call createUsdcTransferIx makes for the basic plan
TokenCallOfBasicPlan ==
  /\ tokenAmount = PLANS[1].price
  /\ tokenDecimals = Dec(USDC_DECIMALS, 0)
  /\ tokenResult = << >>

\* a call with any of the arguments
TokenCallOfAny ==
  /\ tokenAmount \in TokenAmounts
  /\ tokenDecimals \in TokenDecimals
  /\ tokenResult = << >>

PagesInit == SubscribeInit /\ TransferInit /\ WalletInit /\ DetailsInit

Init == PagesInit /\ TokenCallOfBasicPlan

\* the state before a call of toTokenAmount with any of the arguments
TokenInit == PagesInit /\ TokenCallOfAny

(***************************************************************************)
(* createMandate and executeSubscriptionChunk.                             *)
(*                                                                         *)
(* A flow record holds the position (pc: the call being awaited) and the   *)
(* locals of one invocation; `calls` lists the external calls it has made. *)
(* When the invocation returns its locals are gone: what stays is how it   *)
(* ended and, of a created mandate, the instructions it authorized.        *)
(***************************************************************************)
\* onClick={() => createMandate(plan)} up to the first await
CreateMandate(p) ==
  /\ PlanCardsRendered
  /\ ~SubscribeDisabled(p)
  /\ MayStart
  /\ IF ~WalletGuardPasses
       THEN UNCHANGED subVars
       ELSE /\ planStates' = SetPlanStates(p, [isCreatingMandate |-> TRUE])
            /\ createFlow' = [createFlow EXCEPT ![p] =
                 [pc |-> "ix",
                  smartWalletPubkey |-> session.smartWalletPubkey,
                  wallet |-> WalletRecord(session.wallet),
                  expirationTimestamp |-> ExpirationTimestamp(now, PlanOf(p)),
                  startedAt |-> now,
                  lazorkitClient |-> LazorkitClient(GetConnection(connection)),
                  calls |-> << >>]]
            /\ attempts' = attempts + 1
            /\ connection' = GetConnection(connection)
            /\ UNCHANGED <<now, ticks, session, mounted, execFlow, timers, sigCount>>

\* the action argument of executeSubscriptionChunk
CreateChunkAction(ix, expirationTimestamp) ==
  [type |-> "CreateChunk",
   args |-> [cpiInstructions |-> <<ix>>, expiresAt |-> expirationTimestamp]]

\* the argument of lazorkitClient.buildAuthorizationMessage
AuthorizationArgs(f, action, t) ==
  [action |-> action, payer |-> PublicKey(PAYMASTER_PAYER_KORA),
   smartWallet |-> f.smartWalletPubkey,
   passkeyPublicKey |-> f.wallet.passkeyPubkey,
   credentialHash |-> CredentialHashFromBase64(f.wallet.credentialId),
   timestamp |-> UnixSeconds(t)]

\* the message the SDK builds binds its arguments
BuildAuthorizationMessage(args) ==
  <<"authorizationMessage", args.smartWallet, args.timestamp,
    args.action.args.expiresAt>>

\* the bundle the passkey dialog resolves with
OpenSignMessage(message, credentialId) ==
  [signature |-> <<"signature64", message>>,
   clientDataJsonBase64 |-> <<"clientDataJson", credentialId>>,
   authenticatorDataBase64 |-> <<"authenticatorData", credentialId>>]

PasskeySignature(f, signResult) ==
  [passkeyPublicKey |-> AsPasskeyPublicKey(f.wallet.passkeyPubkey),
   signature64 |-> signResult.signature,
   clientDataJsonRaw64 |-> signResult.clientDataJsonBase64,
   authenticatorDataRaw64 |-> signResult.authenticatorDataBase64]

\* variant: the timestamp is taken again when the transaction is requested
CreateChunkArgs_FreshTimestamp(f, signResult, t) ==
  [payer |-> f.authArgs.payer,
   smartWallet |-> f.authArgs.smartWallet,
   passkeySignature |-> PasskeySignature(f, signResult),
   credentialHash |-> f.authArgs.credentialHash,
   cpiInstructions |-> f.authArgs.action.args.cpiInstructions,
   timestamp |-> UnixSeconds(t),
   computeUnitLimit |-> COMPUTE_UNIT_LIMIT]

\* the arguments of lazorkitClient.createChunkTxn at clock value t: the
\* consts of executeSubscriptionChunk, nothing is read again
CreateChunkArgs(f, signResult, t) ==
  [payer |-> f.authArgs.payer,
   smartWallet |-> f.authArgs.smartWallet,
   passkeySignature |-> PasskeySignature(f, signResult),
   credentialHash |-> f.authArgs.credentialHash,
   cpiInstructions |-> f.authArgs.action.args.cpiInstructions,
   timestamp |-> f.authArgs.timestamp,
   computeUnitLimit |-> COMPUTE_UNIT_LIMIT]

Failed == [pc |-> "failed"]

\* variant: the catch block only logs
CreateFailed_OnlyLogs(p, f) ==
  /\ createFlow' = [createFlow EXCEPT ![p] = Failed]
  /\ UNCHANGED <<now, ticks, session, mounted, planStates, execFlow, timers,
                 sigCount, attempts, connection>>

\* the catch block of createMandate
CreateFailed(p, f) ==
  /\ planStates' = SetPlanStates(p, [isCreatingMandate |-> FALSE])
  /\ createFlow' = [createFlow EXCEPT ![p] = Failed]
  /\ UNCHANGED <<now, ticks, session, mounted, execFlow, timers, sigCount, attempts, connection>>

\* createUsdcTransferIx resolves; executeSubscriptionChunk runs up to
\* await lazorkitClient.buildAuthorizationMessage(...)
CreateIxResolved(p) ==
  LET f == createFlow[p]
      usdcTransferIx ==
        CreateUsdcTransferIx(f.smartWalletPubkey, PublicKey(MERCHANT_WALLET), PlanOf(p).price)
      action == CreateChunkAction(usdcTransferIx, f.expirationTimestamp)
  IN /\ f.pc = "ix"
     /\ createFlow' = [createFlow EXCEPT ![p] =
          [pc |-> "buildAuthorizationMessage",
           authArgs |-> AuthorizationArgs(f, action, now),
           calls |-> Append(f.calls, "buildAuthorizationMessage")] @@ f]
     /\ UNCHANGED <<now, ticks, session, mounted, planStates, execFlow, timers,
                    sigCount, attempts, connection>>

\* variant: the transaction is requested without waiting for the passkey dialog
CreateAuthResolved_DialogNotAwaited(p) ==
  LET f == createFlow[p]
      pending == [signature |-> Null, clientDataJsonBase64 |-> Null,
                  authenticatorDataBase64 |-> Null]
  IN /\ f.pc = "buildAuthorizationMessage"
     /\ createFlow' = [createFlow EXCEPT ![p] =
          [pc |-> "createChunkTxn",
           authMessage |-> BuildAuthorizationMessage(f.authArgs),
           chunkArgs |-> CreateChunkArgs(f, pending, now),
           calls |-> f.calls \o <<"openSignMessage", "createChunkTxn">>] @@ f]
     /\ UNCHANGED <<now, ticks, session, mounted, planStates, execFlow, timers,
                    sigCount, attempts, connection>>

\* buildAuthorizationMessage resolves;
\* dialogManager.openSignMessage(authMessage.toString("base64"), credentialId)
CreateAuthResolved(p) ==
  LET f == createFlow[p]
  IN /\ f.pc = "buildAuthorizationMessage"
     /\ createFlow' = [createFlow EXCEPT ![p] =
          [pc |-> "openSignMessage",
           authMessage |-> BuildAuthorizationMessage(f.authArgs),
           calls |-> Append(f.calls, "openSignMessage")] @@ f]
     /\ UNCHANGED <<now, ticks, session, mounted, planStates, execFlow, timers,
                    sigCount, attempts, connection>>

\* the passkey dialog resolves with the signature bundle;
\* lazorkitClient.createChunkTxn({...}, { computeUnitLimit: 300000 })
CreateSignResolved(p) ==
  LET f == createFlow[p]
      signResult == OpenSignMessage(f.authMessage, f.wallet.credentialId)
  IN /\ f.pc = "openSignMessage"
     /\ createFlow' = [createFlow EXCEPT ![p] =
          [pc |-> "createChunkTxn",
           signResult |-> signResult,
           chunkArgs |-> CreateChunkArgs(f, signResult, now),
           requestedAt |-> UnixSeconds(now),
           calls |-> Append(f.calls, "createChunkTxn")] @@ f]
     /\ UNCHANGED <<now, ticks, session, mounted, planStates, execFlow, timers,
                    sigCount, attempts, connection>>

\* createChunkTxn resolves with the transaction; paymaster.signAndSend(tx)
CreateChunkResolved(p) ==
  LET f == createFlow[p]
  IN /\ f.pc = "createChunkTxn"
     /\ createFlow' = [createFlow EXCEPT ![p] =
          [pc |-> "signAndSend",
           transactionResult |-> <<"createChunkTransaction", f.chunkArgs.timestamp>>,
           calls |-> Append(f.calls, "signAndSend")] @@ f]
     /\ UNCHANGED <<now, ticks, session, mounted, planStates, execFlow, timers,
                    sigCount, attempts, connection>>

\* variant: the recorded expiry is counted from the authorization timestamp
CreateSuccessPatch_ExpiryFromTimestamp(f, sig) ==
  [mandateSignature |-> sig,
   expiresAt |-> f.authArgs.timestamp + 30 * 24 * 60 * 60,
   isCreatingMandate |-> FALSE]

\* what createMandate writes on success
CreateSuccessPatch(f, sig) ==
  [mandateSignature |-> sig, expiresAt |-> f.expirationTimestamp,
   isCreatingMandate |-> FALSE]

\* variant: setTimeout(callback, 0)
RevealDue_NoDelay(t) == t

\* setTimeout(callback, 10000) at clock value t
RevealDue(t) == t + REVEAL_DELAY_MS \div 100

\* a created mandate: the instructions the passkey authorized
Created(f) == [pc |-> "done", cpiInstructions |-> f.chunkArgs.cpiInstructions]

\* signAndSend resolves: state update and setTimeout(..., 10000)
CreateSendResolved(p) ==
  LET f == createFlow[p]
      subscriptionMandateTx == NextSignature
  IN /\ f.pc = "signAndSend"
     /\ sigCount' = sigCount + 1
     /\ planStates' = SetPlanStates(p, CreateSuccessPatch(f, subscriptionMandateTx))
     /\ timers' = timers \cup {[plan |-> p, due |-> RevealDue(now)]}
     /\ createFlow' = [createFlow EXCEPT ![p] = Created(f)]
     /\ UNCHANGED <<now, ticks, session, mounted, execFlow, attempts, connection>>

\* any awaited call of the attempt rejects: control passes to the catch block
CreateStepRejected(p) ==
  /\ InFlight(createFlow[p])
  /\ CreateFailed(p, createFlow[p])

\* variant: the callback writes the entry without spreading the previous one
TimerFires_ReplacesEntry(t) ==
  /\ t \in timers
  /\ now >= t.due
  /\ timers' = timers \ {t}
  /\ planStates' = IF mounted
                     THEN (t.plan :> [showExecuteButton |-> TRUE]) @@ planStates
                     ELSE planStates
  /\ UNCHANGED <<now, ticks, session, mounted, createFlow, execFlow, sigCount, attempts, connection>>

\* the setTimeout callback
TimerFires(t) ==
  /\ t \in timers
  /\ now >= t.due
  /\ timers' = timers \ {t}
  /\ planStates' = SetPlanStates(t.plan, [showExecuteButton |-> TRUE])
  /\ UNCHANGED <<now, ticks, session, mounted, createFlow, execFlow, sigCount, attempts, connection>>

(***************************************************************************)
(* executePayment.                                                         *)
(***************************************************************************)
\* variant: owner and recipient are passed in the wrong order
ExecuteTransferIx_Swapped(owner, plan) ==
  CreateUsdcTransferIx(PublicKey(MERCHANT_WALLET), owner, plan.price)

\* the instruction executePayment rebuilds
ExecuteTransferIx(owner, plan) ==
  CreateUsdcTransferIx(owner, PublicKey(MERCHANT_WALLET), plan.price)

\* the arguments of lazorkitClient.executeChunkTxn
ExecuteChunkArgs(f, plan) ==
  [payer |-> PublicKey(PAYMASTER_PAYER_KORA), smartWallet |-> f.smartWalletPubkey,
   cpiInstructions |-> <<ExecuteTransferIx(f.smartWalletPubkey, plan)>>,
   computeUnitLimit |-> COMPUTE_UNIT_LIMIT]

\* variant: the catch block clears the flag and throws the error again
ExecFailed_Rethrows(p, f) ==
  /\ planStates' = SetPlanStates(p, [isExecuting |-> FALSE])
  /\ execFlow' = [execFlow EXCEPT ![p] = [pc |-> "unhandledRejection"]]
  /\ UNCHANGED <<now, ticks, session, mounted, createFlow, timers, sigCount, attempts, connection>>

\* the catch block of executePayment
ExecFailed(p, f) ==
  /\ planStates' = SetPlanStates(p, [isExecuting |-> FALSE])
  /\ execFlow' = [execFlow EXCEPT ![p] = Failed]
  /\ UNCHANGED <<now, ticks, session, mounted, createFlow, timers, sigCount, attempts, connection>>

\* variant: an expired mandate is not executed
ExecutePayment_ChecksExpiry(p) ==
  /\ PlanCardsRendered
  /\ ExecuteShown(p)
  /\ ~ExecuteDisabled(p)
  /\ MayStart
  /\ IF ~WalletGuardPasses \/ UnixSeconds(now) > RenderState(p).expiresAt
       THEN UNCHANGED subVars
       ELSE /\ planStates' = SetPlanStates(p, [isExecuting |-> TRUE])
            /\ execFlow' = [execFlow EXCEPT ![p] =
                 [pc |-> "ix",
                  smartWalletPubkey |-> session.smartWalletPubkey,
                  lazorkitClient |-> LazorkitClient(GetConnection(connection)),
                  calls |-> << >>]]
            /\ attempts' = attempts + 1
            /\ connection' = GetConnection(connection)
            /\ UNCHANGED <<now, ticks, session, mounted, createFlow, timers, sigCount>>

\* onClick={() => executePayment(plan)} up to the first await
ExecutePayment(p) ==
  /\ PlanCardsRendered
  /\ ExecuteShown(p)
  /\ ~ExecuteDisabled(p)
  /\ MayStart
  /\ IF ~WalletGuardPasses
       THEN UNCHANGED subVars
       ELSE /\ planStates' = SetPlanStates(p, [isExecuting |-> TRUE])
            /\ execFlow' = [execFlow EXCEPT ![p] =
                 [pc |-> "ix",
                  smartWalletPubkey |-> session.smartWalletPubkey,
                  lazorkitClient |-> LazorkitClient(GetConnection(connection)),
                  calls |-> << >>]]
            /\ attempts' = attempts + 1
            /\ connection' = GetConnection(connection)
            /\ UNCHANGED <<now, ticks, session, mounted, createFlow, timers, sigCount>>

\* variant: the payment goes through the passkey flow of the mandate creation
ExecIxResolved_AsksPasskey(p) ==
  LET f == execFlow[p]
  IN /\ f.pc = "ix"
     /\ execFlow' = [execFlow EXCEPT ![p] =
          [pc |-> "buildAuthorizationMessage",
           calls |-> Append(f.calls, "buildAuthorizationMessage")] @@ f]
     /\ UNCHANGED <<now, ticks, session, mounted, planStates, createFlow, timers,
                    sigCount, attempts, connection>>

\* createUsdcTransferIx resolves; lazorkitClient.executeChunkTxn({...}, {...})
ExecIxResolved(p) ==
  LET f == execFlow[p]
  IN /\ f.pc = "ix"
     /\ execFlow' = [execFlow EXCEPT ![p] =
          [pc |-> "executeChunkTxn",
           chunkArgs |-> ExecuteChunkArgs(f, PlanOf(p)),
           calledAt |-> UnixSeconds(now),
           calls |-> Append(f.calls, "executeChunkTxn")] @@ f]
     /\ UNCHANGED <<now, ticks, session, mounted, planStates, createFlow, timers,
                    sigCount, attempts, connection>>

\* executeChunkTxn resolves with the transaction; paymaster.signAndSend(tx)
ExecChunkResolved(p) ==
  LET f == execFlow[p]
  IN /\ f.pc = "executeChunkTxn"
     /\ execFlow' = [execFlow EXCEPT ![p] =
          [pc |-> "signAndSend",
           transactionResult |-> <<"executeChunkTransaction", f.chunkArgs.smartWallet>>,
           calls |-> Append(f.calls, "signAndSend")] @@ f]
     /\ UNCHANGED <<now, ticks, session, mounted, planStates, createFlow, timers,
                    sigCount, attempts, connection>>

\* variant: the success update only clears the flag
ExecSendResolved_KeepsMandate(p) ==
  LET f == execFlow[p]
  IN /\ f.pc = "signAndSend"
     /\ sigCount' = sigCount + 1
     /\ planStates' = SetPlanStates(p, [isExecuting |-> FALSE])
     /\ execFlow' = [execFlow EXCEPT ![p] = [pc |-> "done"]]
     /\ UNCHANGED <<now, ticks, session, mounted, createFlow, timers, attempts, connection>>

\* signAndSend resolves
ExecSendResolved(p) ==
  LET f == execFlow[p]
      executionTx == NextSignature
  IN /\ f.pc = "signAndSend"
     /\ sigCount' = sigCount + 1
     /\ planStates' = SetPlanStates(p, [isExecuting |-> FALSE,
                                        mandateSignature |-> executionTx])
     /\ execFlow' = [execFlow EXCEPT ![p] = [pc |-> "done"]]
     /\ UNCHANGED <<now, ticks, session, mounted, createFlow, timers, attempts, connection>>

\* an awaited call of executePayment rejects
ExecStepRejected(p) ==
  /\ InFlight(execFlow[p])
  /\ ExecFailed(p, execFlow[p])

(***************************************************************************)
(* Environment: the clock, the SDK's session, navigation.                  *)
(***************************************************************************)
\* 10 s, 31 days
TickSteps == {100, 26784000}

Tick(d) ==
  /\ ticks < MaxTicks
  /\ now' = now + d
  /\ ticks' = ticks + 1
  /\ UNCHANGED <<session, mounted, planStates, createFlow, execFlow, timers,
                 sigCount, attempts, connection>>

\* the SDK connects, disconnects or switches the wallet
SessionChanges(s) ==
  /\ s # session
  /\ session' = s
  /\ UNCHANGED <<now, ticks, mounted, planStates, createFlow, execFlow, timers,
                 sigCount, attempts, connection>>

\* variant: leaving the page aborts the pending operations and clears the timers
Unmount_Cancels ==
  /\ mounted
  /\ mounted' = FALSE
  /\ createFlow' = [p \in PlanIds |-> IF InFlight(createFlow[p]) THEN Failed ELSE createFlow[p]]
  /\ execFlow' = [p \in PlanIds |-> IF InFlight(execFlow[p]) THEN Failed ELSE execFlow[p]]
  /\ timers' = {}
  /\ UNCHANGED <<now, ticks, session, planStates, sigCount, attempts, connection>>

\* the user navigates away: nothing is cancelled
Unmount ==
  /\ mounted
  /\ mounted' = FALSE
  /\ UNCHANGED <<now, ticks, session, planStates, createFlow, execFlow, timers,
                 sigCount, attempts, connection>>

(***************************************************************************)
(* The transfer page: the form and handleSend.                             *)
(***************************************************************************)
LAMPORTS_PER_SOL == 1000000000

\* a string held in a state slot that may be null
Str(s) == <<"string", s>>

\* what the user types: the recipient field is free text, the amount field
\* is a number input, whose value is "" or the string of a number
WellFormedAddress == "9xQeWvG816bUx9EPjHmaT23yvVM2ZWbrrpZb9PusVFin"
RecipientInputs == {"", WellFormedAddress, "not-an-address"}
AmountInputs == {"", "0", "-1", "0.5", "2"}

\* Number(amount)
NumberOf(str) ==
  CASE str = ""    -> Dec(0, 0)
    [] str = "0"   -> Dec(0, 0)
    [] str = "-1"  -> Dec(-1, 0)
    [] str = "0.5" -> Dec(5, 1)
    [] str = "2"   -> Dec(2, 0)

\* new PublicKey(recipient) throws unless the string decodes to 32 bytes
PublicKeyThrows(str) == str # WellFormedAddress

\* variant: the amount is cut to whole SOL before the multiplication
Lamports_WholeSol(str) ==
  (NumberOf(str).num \div Pow10(NumberOf(str).scale)) * LAMPORTS_PER_SOL

\* Number(amount) * LAMPORTS_PER_SOL
Lamports(str) ==
  NumberOf(str).num * (LAMPORTS_PER_SOL \div Pow10(NumberOf(str).scale))

\* SystemProgram.transfer({ fromPubkey, toPubkey, lamports })
SystemProgramTransfer(fromPubkey, toPubkey, lamports) ==
  [program |-> "systemTransfer", fromPubkey |-> fromPubkey, toPubkey |-> toPubkey,
   lamports |-> lamports]

\* variant: a zero amount is let through
PassesValidation_AllowsZero(r, a) == ~(r = "" \/ a = "" \/ NumberOf(a).num < 0)

\* !(!recipient || !amount || Number(amount) <= 0)
PassesValidation(r, a) == ~(r = "" \/ a = "" \/ NumberOf(a).num <= 0)

\* if (isLoading && !isSigning) return <Loading/>; if (!isConnected) return null;
FormRendered ==
  /\ transferOpen
  /\ ~(walletFlags.isLoading /\ ~walletFlags.isSigning)
  /\ session.isConnected

\* variant: the control is never disabled
SendDisabled_Never == FALSE

\* disabled={status === "sending"}
SendDisabled == status = "sending"

\* what signAndSendTransaction resolves with, and the messages it rejects with
TxSignatures == {<<"signature", "tx1">>, <<"signature", "tx2">>}
RejectionMessages == {"", "Signing cancelled"}

\* onChange={(e) => setRecipient(e.target.value)}
SetRecipient(r) ==
  /\ FormRendered
  /\ r # recipient
  /\ recipient' = r
  /\ UNCHANGED <<walletFlags, amount, status, errorMsg, successMsg, signature, sendFlow,
                 pageVarsTransfer>>

\* onChange={(e) => setAmount(e.target.value)}
SetAmount(a) ==
  /\ FormRendered
  /\ a # amount
  /\ amount' = a
  /\ UNCHANGED <<walletFlags, recipient, status, errorMsg, successMsg, signature, sendFlow,
                 pageVarsTransfer>>

\* onClick={handleSend} up to the await (or to the return of the validation,
\* or to the catch block when new PublicKey throws)
HandleSend ==
  /\ FormRendered
  /\ ~SendDisabled
  /\ successMsg' = Null
  /\ IF ~PassesValidation(recipient, amount)
       THEN /\ status' = "sending"
            /\ errorMsg' = Str("Enter valid recipient and amount")
            /\ UNCHANGED sendFlow
       ELSE IF PublicKeyThrows(recipient)
         THEN /\ status' = "error"
              /\ errorMsg' = Str("Invalid public key input")
              /\ UNCHANGED sendFlow
         ELSE /\ status' = "sending"
              /\ errorMsg' = Null
              /\ sendFlow' =
                   [pc |-> "signAndSendTransaction",
                    instructions |->
                      <<SystemProgramTransfer(session.smartWalletPubkey,
                                              PublicKey(recipient), Lamports(amount))>>]
  /\ UNCHANGED <<walletFlags, recipient, amount, signature, pageVarsTransfer>>

\* signAndSendTransaction resolves with the signature
SendResolved(sig) ==
  /\ sendFlow.pc = "signAndSendTransaction"
  /\ IF transferOpen
       THEN /\ signature' = sig
            /\ successMsg' = Str("Transaction sent successfully!")
            /\ status' = "success"
            /\ recipient' = ""
            /\ amount' = ""
       ELSE UNCHANGED <<signature, successMsg, status, recipient, amount>>
  /\ sendFlow' = Idle
  /\ UNCHANGED <<walletFlags, errorMsg, pageVarsTransfer>>

\* variant: the message of the rejection is shown as it is
SendRejected_NoFallback(message) ==
  /\ sendFlow.pc = "signAndSendTransaction"
  /\ IF transferOpen
       THEN errorMsg' = Str(message) /\ status' = "error"
       ELSE UNCHANGED <<errorMsg, status>>
  /\ sendFlow' = Idle
  /\ UNCHANGED <<walletFlags, recipient, amount, successMsg, signature, pageVarsTransfer>>

\* signAndSendTransaction rejects with an Error: the catch block
SendRejected(message) ==
  /\ sendFlow.pc = "signAndSendTransaction"
  /\ IF transferOpen
       THEN /\ errorMsg' = Str(IF message = "" THEN "Transaction failed" ELSE message)
            /\ status' = "error"
       ELSE UNCHANGED <<errorMsg, status>>
  /\ sendFlow' = Idle
  /\ UNCHANGED <<walletFlags, recipient, amount, successMsg, signature, pageVarsTransfer>>

\* the SDK reports loading, signing or connecting
FlagsChange(fl) ==
  /\ fl # walletFlags
  /\ walletFlags' = fl
  /\ UNCHANGED <<recipient, amount, status, errorMsg, successMsg, signature, sendFlow>>

\* the SDK reports loading, signing or connecting while another page shows
WalletFlagsChange(fl) ==
  /\ FlagsChange(fl)
  /\ UNCHANGED pageVarsTransfer

WalletFlagValues == [isLoading : BOOLEAN, isSigning : BOOLEAN, isConnecting : BOOLEAN]

(***************************************************************************)
(* The wallet page: the derived status and handleConnect.  connect() is    *)
(* the SDK's: it reports isConnecting while the passkey ceremony runs,     *)
(* then either isConnected with smartWalletPubkey populated, or an error.  *)
(***************************************************************************)
\* the state of the other pages that is not the wallet hook's
planVars == <<now, ticks, mounted, planStates, createFlow, execFlow, timers,
              sigCount, attempts, connection>>
formVars == <<recipient, amount, status, errorMsg, successMsg, signature, sendFlow,
              pageVarsTransfer>>

\* isConnected ? "connected" : isConnecting ? "connecting" : "disconnected"
WalletStatus ==
  IF session.isConnected THEN "connected"
  ELSE IF walletFlags.isConnecting THEN "connecting"
  ELSE "disconnected"

\* {status === "disconnected" && <button onClick={handleConnect}>}
ConnectShown == route = "/wallet" /\ WalletStatus = "disconnected"

\* {status === "connected" && smartWalletPubkey && <p>Wallet Address: ...</p>}
AddressShown ==
  route = "/wallet" /\ WalletStatus = "connected" /\ session.smartWalletPubkey # Null

\* the errors connect() rejects with
ConnectErrors ==
  {<<"Error", "Passkey ceremony cancelled">>, <<"Error", "Portal unreachable">>,
   <<"Error", "Wallet creation failed">>}

\* onClick={handleConnect} up to await connect()
HandleConnect ==
  /\ ConnectShown
  /\ connectFlow.pc # "connect"
  /\ connectFlow' = [pc |-> "connect"]
  /\ walletFlags' = [walletFlags EXCEPT !.isConnecting = TRUE]
  /\ walletError' \in {walletError, Null}
  /\ UNCHANGED <<session, route, planVars, formVars>>

\* connect() resolves: handleConnect returns
ConnectResolved(w) ==
  /\ connectFlow.pc = "connect"
  /\ session' = Connected(w)
  /\ walletFlags' = [walletFlags EXCEPT !.isConnecting = FALSE]
  /\ connectFlow' = [pc |-> "returned", outcome |-> "resolved"]
  /\ UNCHANGED <<walletError, route, planVars, formVars>>

\* variant: handleConnect has no try/catch
ConnectRejected_NotCaught(e) ==
  /\ connectFlow.pc = "connect"
  /\ walletError' = e
  /\ walletFlags' = [walletFlags EXCEPT !.isConnecting = FALSE]
  /\ connectFlow' = [pc |-> "unhandledRejection", outcome |-> "rejected"]
  /\ UNCHANGED <<session, route, planVars, formVars>>

\* connect() rejects: the catch block logs, handleConnect returns
ConnectRejected(e) ==
  /\ connectFlow.pc = "connect"
  /\ walletError' = e
  /\ walletFlags' = [walletFlags EXCEPT !.isConnecting = FALSE]
  /\ connectFlow' = [pc |-> "returned", outcome |-> "rejected"]
  /\ UNCHANGED <<session, route, planVars, formVars>>

\* const goToTransfer = () => router.push("/transfer")
GoToTransfer ==
  /\ AddressShown
  /\ route' = "/transfer"
  /\ UNCHANGED <<walletError, connectFlow, subVars, transferVars>>

\* the SDK drops the session of a connected wallet
SessionLost ==
  /\ session.isConnected
  /\ SessionChanges(Disconnected)
  /\ UNCHANGED <<transferVars, walletVars>>

\* the SDK reports loading or signing
BusyChanges(loading, signing) ==
  /\ WalletFlagsChange([walletFlags EXCEPT !.isLoading = loading, !.isSigning = signing])
  /\ UNCHANGED <<subVars, walletVars>>

(***************************************************************************)
(* The wallet details page: the mount timer, the redirect effect, the      *)
(* fetchBalance effect and the balance line.  An action that changes a     *)
(* dependency of an effect runs the effect.                                *)
(***************************************************************************)
\* n written with k digits
RECURSIVE Digits(_, _)
Digits(n, k) == IF k = 0 THEN "" ELSE Digits(n \div 10, k - 1) \o ToString(n % 10)

\* value.toFixed(digits), for a decimal with at least that many places
ToFixed(value, digits) ==
  LET m == Pow10(value.scale - digits)
      units == (value.num \div m) + (IF 2 * (value.num % m) >= m THEN 1 ELSE 0)
  IN ToString(units \div Pow10(digits)) \o "." \o Digits(units % Pow10(digits), digits)

\* lamports / LAMPORTS_PER_SOL, as a value of a state slot that may be null
SolOf(lamports) == <<"number", lamports, 9>>
\* the decimal of such a value
DecOf(number) == Dec(number[2], number[3])

\* variant: a zero balance is taken for a missing one
BalanceLine_FalsyIsLoading ==
  IF isLoadingBalance \/ balance = Null \/ balance = SolOf(0) THEN "Loading..."
  ELSE ToFixed(DecOf(balance), 4) \o " SOL"

\* {isLoadingBalance ? "Loading..." : `${balance?.toFixed(4)} SOL`}
BalanceLine ==
  IF isLoadingBalance THEN "Loading..."
  ELSE IF balance = Null THEN "undefined SOL"
  ELSE ToFixed(DecOf(balance), 4) \o " SOL"

\* what connection.getBalance resolves with, in lamports
BalanceResults == {0, 1, 123456789, 1500000000}

\* variant: if (isMounted && !walletLoading && !isConnected)
RedirectCondition_IgnoresConnecting(mountedFlag, sess, flags) ==
  mountedFlag /\ ~flags.isLoading /\ ~sess.isConnected

\* if (isMounted && !walletLoading && !isConnected && !isConnecting)
RedirectCondition(mountedFlag, sess, flags) ==
  mountedFlag /\ ~flags.isLoading /\ ~sess.isConnected /\ ~flags.isConnecting

\* the redirect effect: router.push("/wallet") unmounts the page
AfterRedirectEffect(mountedFlag, sess, flags) ==
  detailsOpen /\ ~RedirectCondition(mountedFlag, sess, flags)

\* the mount timer fires: setIsMounted(true); both effects run
MountTimerFires ==
  /\ detailsOpen
  /\ mountTimer # << >>
  /\ now >= mountTimer[1]
  /\ mountTimer' = << >>
  /\ isMounted' = TRUE
  /\ detailsOpen' = AfterRedirectEffect(TRUE, session, walletFlags)
  /\ IF session.smartWalletPubkey # Null
       THEN /\ isLoadingBalance' = TRUE
            /\ balanceFlow' = [pc |-> "getBalance", publicKey |-> session.smartWalletPubkey]
            /\ balanceQueries' = balanceQueries + 1
       ELSE UNCHANGED <<isLoadingBalance, balanceFlow, balanceQueries>>
  /\ UNCHANGED <<balance, subVars, transferVars, walletVars, tokenVars>>

\* connection.getBalance resolves: setBalance, finally setIsLoadingBalance(false)
BalanceResolved(lamports) ==
  /\ balanceFlow.pc = "getBalance"
  /\ balanceFlow' = [pc |-> "done", lamports |-> lamports]
  /\ IF detailsOpen
       THEN balance' = SolOf(lamports) /\ isLoadingBalance' = FALSE
       ELSE UNCHANGED <<balance, isLoadingBalance>>
  /\ UNCHANGED <<detailsOpen, isMounted, mountTimer, balanceQueries,
                 subVars, transferVars, walletVars, tokenVars>>

\* connection.getBalance rejects: catch logs, finally setIsLoadingBalance(false)
BalanceRejected ==
  /\ balanceFlow.pc = "getBalance"
  /\ balanceFlow' = [pc |-> "failed"]
  /\ IF detailsOpen
       THEN isLoadingBalance' = FALSE
       ELSE UNCHANGED isLoadingBalance
  /\ UNCHANGED <<detailsOpen, isMounted, mountTimer, balance, balanceQueries,
                 subVars, transferVars, walletVars, tokenVars>>

\* variant: the fetch effect also depends on smartWalletPubkey
DetailsSessionChanges_Refetches(s) ==
  /\ SessionChanges(s)
  /\ detailsOpen' = AfterRedirectEffect(isMounted, s, walletFlags)
  /\ mountTimer' = IF detailsOpen' THEN mountTimer ELSE << >>
  /\ IF detailsOpen /\ isMounted /\ s.smartWalletPubkey # Null
          /\ s.smartWalletPubkey # session.smartWalletPubkey
       THEN /\ isLoadingBalance' = TRUE
            /\ balanceFlow' = [pc |-> "getBalance", publicKey |-> s.smartWalletPubkey]
            /\ balanceQueries' = balanceQueries + 1
       ELSE UNCHANGED <<isLoadingBalance, balanceFlow, balanceQueries>>
  /\ UNCHANGED <<isMounted, balance, transferVars, walletVars, tokenVars>>

\* the SDK changes the session: the redirect effect runs, the fetch effect
\* (dependencies [isMounted]) does not
DetailsSessionChanges(s) ==
  /\ SessionChanges(s)
  /\ detailsOpen' = AfterRedirectEffect(isMounted, s, walletFlags)
  /\ mountTimer' = IF detailsOpen' THEN mountTimer ELSE << >>
  /\ UNCHANGED <<isMounted, balance, isLoadingBalance, balanceFlow, balanceQueries,
                 transferVars, walletVars, tokenVars>>

\* the SDK reports loading, signing or connecting: the redirect effect runs
DetailsFlagsChange(fl) ==
  /\ WalletFlagsChange(fl)
  /\ detailsOpen' = AfterRedirectEffect(isMounted, session, fl)
  /\ mountTimer' = IF detailsOpen' THEN mountTimer ELSE << >>
  /\ UNCHANGED <<isMounted, balance, isLoadingBalance, balanceFlow, balanceQueries,
                 subVars, walletVars, tokenVars>>

(***************************************************************************)
(* The transfer page: the mount timer and the redirect effect, the same    *)
(* two effects as on the details page.                                     *)
(***************************************************************************)
\* the redirect effect of the transfer page
AfterTransferRedirect(mountedFlag, sess, flags) ==
  transferOpen /\ ~RedirectCondition(mountedFlag, sess, flags)

\* the mount timer fires: setIsMounted(true); the redirect effect runs
TransferMountTimerFires ==
  /\ transferOpen
  /\ mountTimerTransfer # << >>
  /\ now >= mountTimerTransfer[1]
  /\ mountTimerTransfer' = << >>
  /\ isMountedTransfer' = TRUE
  /\ transferOpen' = AfterTransferRedirect(TRUE, session, walletFlags)
  /\ UNCHANGED <<walletFlags, recipient, amount, status, errorMsg, successMsg,
                 signature, sendFlow, subVars, walletVars, detailsVars, tokenVars>>

\* the SDK changes the session: the redirect effect runs; leaving the page
\* clears the mount timer
TransferSessionChanges(s) ==
  /\ SessionChanges(s)
  /\ transferOpen' = AfterTransferRedirect(isMountedTransfer, s, walletFlags)
  /\ mountTimerTransfer' = IF transferOpen' THEN mountTimerTransfer ELSE << >>
  /\ UNCHANGED <<isMountedTransfer, walletFlags, recipient, amount, status, errorMsg,
                 successMsg, signature, sendFlow, walletVars, detailsVars, tokenVars>>

\* the SDK reports loading, signing or connecting: the redirect effect runs
TransferFlagsChange(fl) ==
  /\ FlagsChange(fl)
  /\ transferOpen' = AfterTransferRedirect(isMountedTransfer, session, fl)
  /\ mountTimerTransfer' = IF transferOpen' THEN mountTimerTransfer ELSE << >>
  /\ UNCHANGED <<isMountedTransfer, subVars, walletVars, detailsVars, tokenVars>>

(***************************************************************************)
(* Specifications.  Each page is a route of its own: while one of them is  *)
(* showing, the state of the other does not change.                        *)
(***************************************************************************)
\* toTokenAmount returns or throws
TokenCallReturns ==
  /\ tokenResult = << >>
  /\ tokenResult' = <<ToTokenAmount(tokenAmount, tokenDecimals)>>
  /\ UNCHANGED <<tokenAmount, tokenDecimals, subVars, transferVars, walletVars, detailsVars>>

vars == <<subVars, transferVars, walletVars, detailsVars, tokenVars>>

\* what an action of one page leaves alone
offSubscribe == <<transferVars, walletVars, detailsVars, tokenVars>>
offTransfer == <<subVars, walletVars, detailsVars, tokenVars>>

SubscribeNext ==
  \/ \E p \in PlanIds : CreateMandate(p) /\ UNCHANGED offSubscribe
  \/ \E p \in PlanIds : CreateIxResolved(p) /\ UNCHANGED offSubscribe
  \/ \E p \in PlanIds : CreateAuthResolved(p) /\ UNCHANGED offSubscribe
  \/ \E p \in PlanIds : CreateSignResolved(p) /\ UNCHANGED offSubscribe
  \/ \E p \in PlanIds : CreateChunkResolved(p) /\ UNCHANGED offSubscribe
  \/ \E p \in PlanIds : CreateSendResolved(p) /\ UNCHANGED offSubscribe
  \/ \E p \in PlanIds : CreateStepRejected(p) /\ UNCHANGED offSubscribe
  \/ \E t \in timers : TimerFires(t) /\ UNCHANGED offSubscribe
  \/ \E p \in PlanIds : ExecutePayment(p) /\ UNCHANGED offSubscribe
  \/ \E p \in PlanIds : ExecIxResolved(p) /\ UNCHANGED offSubscribe
  \/ \E p \in PlanIds : ExecChunkResolved(p) /\ UNCHANGED offSubscribe
  \/ \E p \in PlanIds : ExecSendResolved(p) /\ UNCHANGED offSubscribe
  \/ \E p \in PlanIds : ExecStepRejected(p) /\ UNCHANGED offSubscribe
  \/ \E d \in TickSteps : Tick(d) /\ UNCHANGED offSubscribe
  \/ \E s \in Sessions : SessionChanges(s) /\ UNCHANGED offSubscribe

Next == SubscribeNext
\* the subscribe page while it stays mounted
Spec == Init /\ [][Next]_vars
\* the subscribe page with the user navigating away at any moment
NavSpec == Init /\ [][Next \/ (Unmount /\ UNCHANGED offSubscribe)]_vars

\* the event loop runs a timer that is due
TimersFire == \E t \in timers : TimerFires(t) /\ UNCHANGED offSubscribe
FairSpec == Spec /\ WF_vars(TimersFire)

TransferNext ==
  \/ \E r \in RecipientInputs : SetRecipient(r) /\ UNCHANGED offTransfer
  \/ \E a \in AmountInputs : SetAmount(a) /\ UNCHANGED offTransfer
  \/ HandleSend /\ UNCHANGED offTransfer
  \/ \E sig \in TxSignatures : SendResolved(sig) /\ UNCHANGED offTransfer
  \/ \E message \in RejectionMessages : SendRejected(message) /\ UNCHANGED offTransfer
  \/ TransferMountTimerFires
  \/ \E fl \in WalletFlagValues : TransferFlagsChange(fl)
  \/ \E s \in Sessions : TransferSessionChanges(s)
  \/ \E d \in TickSteps : Tick(d) /\ UNCHANGED offSubscribe

\* the transfer page
SpecTransfer == Init /\ [][TransferNext]_vars

WalletNext ==
  \/ HandleConnect /\ UNCHANGED <<detailsVars, tokenVars>>
  \/ \E w \in WalletKeys : ConnectResolved(w) /\ UNCHANGED <<detailsVars, tokenVars>>
  \/ \E e \in ConnectErrors : ConnectRejected(e) /\ UNCHANGED <<detailsVars, tokenVars>>
  \/ GoToTransfer /\ UNCHANGED <<detailsVars, tokenVars>>
  \/ SessionLost /\ UNCHANGED <<detailsVars, tokenVars>>
  \/ \E loading, signing \in BOOLEAN : BusyChanges(loading, signing) /\ UNCHANGED <<detailsVars, tokenVars>>

\* the wallet page
SpecWallet == Init /\ [][WalletNext]_vars

DetailsNext ==
  \/ MountTimerFires
  \/ \E lamports \in BalanceResults : BalanceResolved(lamports)
  \/ BalanceRejected
  \/ \E s \in Sessions : DetailsSessionChanges(s)
  \/ \E fl \in WalletFlagValues : DetailsFlagsChange(fl)
  \/ \E d \in TickSteps : Tick(d) /\ UNCHANGED offSubscribe

\* the wallet details page
SpecDetails == Init /\ [][DetailsNext]_vars

\* a page nobody has used yet (the router shows one page at a time)
SubscribeUntouched ==
  /\ planStates = EmptyObject
  /\ \A p \in PlanIds : createFlow[p] = Idle /\ execFlow[p] = Idle
  /\ timers = {}
  /\ attempts = 0
TransferUntouched ==
  /\ recipient = "" /\ amount = "" /\ status = "idle"
  /\ errorMsg = Null /\ successMsg = Null /\ signature = Null
  /\ sendFlow = Idle
  /\ transferOpen /\ ~isMountedTransfer
WalletUntouched == connectFlow = Idle /\ walletError = Null /\ route = "/wallet"
DetailsUntouched == detailsOpen /\ ~isMounted /\ balanceFlow = Idle

AppNext ==
  \/ SubscribeNext /\ TransferUntouched /\ WalletUntouched /\ DetailsUntouched
  \/ TransferNext /\ SubscribeUntouched /\ WalletUntouched /\ DetailsUntouched
  \/ WalletNext /\ SubscribeUntouched /\ TransferUntouched /\ DetailsUntouched
  \/ DetailsNext /\ SubscribeUntouched /\ TransferUntouched /\ WalletUntouched

\* the application: whichever page the user opens
SpecApp == Init /\ [][AppNext]_vars

TokenNext == TokenCallReturns

\* toTokenAmount called with any of the arguments
SpecToken == TokenInit /\ [][TokenNext]_vars

(***************************************************************************)
(* Properties of the subscribe page.                                       *)
(***************************************************************************)
Prefix(seq, n) == SubSeq(seq, 1, n)
\* obj[key] as an optional value: << >> when the key is missing
Lookup(obj, key) == IF key \in DOMAIN obj THEN <<obj[key]>> ELSE << >>
Entry(states, id) == PrevEntry(states, id)

CreateOrder ==
  <<"buildAuthorizationMessage", "openSignMessage", "createChunkTxn", "signAndSend">>
ExecuteOrder == <<"executeChunkTxn", "signAndSend">>

\* C1: in every mandate-creation attempt the external calls are made in the
\* order buildAuthorizationMessage, openSignMessage, createChunkTxn,
\* signAndSend, each at most once, each only after the previous one has
\* resolved, and createChunkTxn carries the signature bundle the passkey
\* dialog of this attempt returned.
C1_CreateCallOrder ==
  \A p \in PlanIds :
    LET f == createFlow[p]
        n == Len(f.calls)
    IN InFlight(f) =>
         /\ n <= Len(CreateOrder)
         /\ f.calls = Prefix(CreateOrder, n)
         /\ IF n = 0 THEN f.pc = "ix" ELSE f.pc = f.calls[n]
         /\ n >= 2 => "authMessage" \in DOMAIN f
         /\ n >= 3 =>
              /\ "signResult" \in DOMAIN f
              /\ f.signResult = OpenSignMessage(f.authMessage, f.wallet.credentialId)
              /\ f.chunkArgs.passkeySignature.signature64 = f.signResult.signature
              /\ f.chunkArgs.passkeySignature.clientDataJsonRaw64
                   = f.signResult.clientDataJsonBase64
              /\ f.chunkArgs.passkeySignature.authenticatorDataRaw64
                   = f.signResult.authenticatorDataBase64
         /\ n >= 4 => "transactionResult" \in DOMAIN f

C1_Witness ==
  \E p \in PlanIds :
    createFlow[p].pc = "signAndSend" /\ createFlow[p].calls = CreateOrder

\* C2: when a step of createMandate fails, no later step is invoked, the
\* in-flight flag is cleared, mandateSignature, expiresAt and
\* showExecuteButton keep their values, no reveal timer is scheduled and the
\* Subscribe control of the plan is enabled again (while the page is mounted).
C2_FailureStep(p) ==
  (InFlight(createFlow[p]) /\ createFlow'[p].pc = "failed") =>
     /\ ~InFlight(createFlow'[p])
     /\ timers' = timers
     /\ sigCount' = sigCount
     /\ mounted =>
          /\ Lookup(Entry(planStates', p), "isCreatingMandate") = <<FALSE>>
          /\ \A k \in {"mandateSignature", "expiresAt", "showExecuteButton", "isExecuting"} :
               Lookup(Entry(planStates', p), k) = Lookup(Entry(planStates, p), k)
          /\ \A q \in PlanIds \ {p} : Entry(planStates', q) = Entry(planStates, q)
          /\ ~(SubscribeDisabled(p))'

C2_FailureLeavesNoPartialState ==
  /\ [][\A p \in PlanIds : C2_FailureStep(p)]_vars
  /\ [](\A p \in PlanIds :
         (createFlow[p].pc = "failed" /\ mounted) =>
            /\ ~SubscribeDisabled(p)
            /\ ~HasSignature(Entry(planStates, p))
            /\ \A t \in timers : t.plan # p)

C2_Witness ==
  \E p \in PlanIds :
    /\ createFlow[p].pc = "failed"
    /\ mounted
    /\ Lookup(Entry(planStates, p), "isCreatingMandate") = <<FALSE>>
    /\ ~SubscribeDisabled(p)

\* C3: when createMandate succeeds, the plan's UI state holds the signature
\* signAndSend returned, the expiration computed at the start of the attempt
\* (the one placed in the CreateChunk action) and isCreatingMandate = false.
C3_SuccessStep(p) ==
  (createFlow[p].pc = "signAndSend" /\ createFlow'[p].pc = "done" /\ mounted) =>
     LET f == createFlow[p]
         e == Entry(planStates', p)
     IN /\ Lookup(e, "mandateSignature") = <<NextSignature>>
        /\ Lookup(e, "expiresAt") = <<ExpirationTimestamp(f.startedAt, PlanOf(p))>>
        /\ Lookup(e, "expiresAt") = <<f.authArgs.action.args.expiresAt>>
        /\ Lookup(e, "isCreatingMandate") = <<FALSE>>

C3_SuccessRecorded == [][\A p \in PlanIds : C3_SuccessStep(p)]_vars

C3_Witness ==
  \E p \in PlanIds :
    /\ createFlow[p].pc = "done"
    /\ mounted
    /\ execFlow[p].pc = "idle"
    /\ HasSignature(Entry(planStates, p))
    /\ Lookup(Entry(planStates, p), "isCreatingMandate") = <<FALSE>>
    \* the attempt started a tick before it was authorized
    /\ planStates[p].expiresAt < UnixSeconds(now) + 2592000

\* C4: for every plan the expiration timestamp of createMandate is the
\* current time in whole seconds plus 2592000; the plan's interval does not
\* enter.
C4_ThirtyDayExpiry ==
  \A p \in PlanIds :
    LET f == createFlow[p]
    IN InFlight(f) =>
         /\ f.expirationTimestamp = (f.startedAt \div 10) + 2592000
         /\ "authArgs" \in DOMAIN f =>
              f.authArgs.action.args.expiresAt = (f.startedAt \div 10) + 2592000

C4_Witness ==
  /\ InFlight(createFlow["annual"])
  /\ PlanOf("annual").intervalDays # 30
  /\ createFlow["annual"].startedAt > 10
  /\ "authArgs" \in DOMAIN createFlow["annual"]

\* C5: after a successful mandate creation the Execute Payment control is
\* not exposed before the 10 s delay has elapsed; once the delay has elapsed
\* it is eventually exposed, and it stays exposed, while the page is mounted.
C5_RevealStep(p) ==
  /\ (createFlow[p].pc = "signAndSend" /\ createFlow'[p].pc = "done") =>
       /\ ~(ExecuteShown(p))'
       /\ \A t \in timers' : t.plan = p => t.due = now + 100
       /\ \E t \in timers' : t.plan = p
  /\ (~ExecuteShown(p) /\ (ExecuteShown(p))') =>
       \E t \in timers : t.plan = p /\ now >= t.due /\ t \notin timers'
  /\ ExecuteShown(p) => (ExecuteShown(p))'

C5_RevealAfterDelay ==
  /\ [][\A p \in PlanIds : C5_RevealStep(p)]_vars
  /\ \A p \in PlanIds :
       (mounted /\ \E t \in timers : t.plan = p /\ now >= t.due)
         ~> (ExecuteShown(p) \/ ~mounted)

C5_Witness ==
  \E p \in PlanIds :
    /\ mounted
    /\ createFlow[p].pc = "done"
    /\ ExecuteShown(p)
    /\ \A t \in timers : t.plan # p

\* C6: an execution builds no authorization message and opens no passkey
\* dialog: its external calls are executeChunkTxn and then signAndSend, the
\* latter only when executeChunkTxn has resolved.
C6_ExecuteCallOrder ==
  \A p \in PlanIds :
    LET f == execFlow[p]
        n == Len(f.calls)
    IN InFlight(f) =>
         /\ n <= Len(ExecuteOrder)
         /\ f.calls = Prefix(ExecuteOrder, n)
         /\ IF n = 0 THEN f.pc = "ix" ELSE f.pc = f.calls[n]
         /\ \A i \in 1..n :
              f.calls[i] \notin {"buildAuthorizationMessage", "openSignMessage"}
         /\ n >= 1 => "passkeySignature" \notin DOMAIN f.chunkArgs
         /\ n >= 2 => "transactionResult" \in DOMAIN f

C6_Witness ==
  \E p \in PlanIds :
    execFlow[p].pc = "signAndSend" /\ execFlow[p].calls = ExecuteOrder

\* C7: executePayment checks no expiration: whenever the Execute control of
\* a plan is exposed and enabled, a click starts the execution whatever the
\* clock and the recorded expiresAt are, the started execution calls
\* executeChunkTxn unless building the instruction fails, and when an
\* execution has ended the control is enabled again.
C7_Clickable(p) ==
  PlanCardsRendered /\ ExecuteShown(p) /\ ~ExecuteDisabled(p)
    /\ WalletGuardPasses /\ MayStart

C7_NoExpirationCheck ==
  \A p \in PlanIds :
    /\ C7_Clickable(p) => ENABLED (ExecutePayment(p) /\ execFlow'[p].pc = "ix" /\ UNCHANGED offSubscribe)
    /\ (InFlight(execFlow[p]) /\ execFlow[p].pc # "ix") =>
          execFlow[p].calls[1] = "executeChunkTxn"
    /\ (mounted /\ execFlow[p].pc \in {"done", "failed"}) =>
          (ExecuteShown(p) /\ ~ExecuteDisabled(p))

C7_Witness ==
  \E p \in PlanIds :
    /\ execFlow[p].pc = "executeChunkTxn"
    /\ mounted
    /\ execFlow[p].calledAt > planStates[p].expiresAt

\* C8: within one attempt the timestamp, the credential hash, the payer, the
\* wallet and the instruction list passed to createChunkTxn are the ones
\* bound into the authorization message the passkey signed.
C8_ChunkMatchesAuthorization ==
  \A p \in PlanIds :
    LET f == createFlow[p]
    IN (InFlight(f) /\ "chunkArgs" \in DOMAIN f) =>
         /\ f.chunkArgs.timestamp = f.authArgs.timestamp
         /\ f.chunkArgs.credentialHash = f.authArgs.credentialHash
         /\ f.chunkArgs.payer = f.authArgs.payer
         /\ f.chunkArgs.smartWallet = f.authArgs.smartWallet
         /\ f.chunkArgs.cpiInstructions = f.authArgs.action.args.cpiInstructions
         /\ f.chunkArgs.passkeySignature.signature64
              = OpenSignMessage(BuildAuthorizationMessage(f.authArgs),
                                f.wallet.credentialId).signature

C8_Witness ==
  \E p \in PlanIds :
    /\ createFlow[p].pc = "createChunkTxn"
    \* the clock moved between the two calls
    /\ createFlow[p].authArgs.timestamp < createFlow[p].requestedAt

\* C9: the transfer instruction executePayment submits for a plan is the one
\* createMandate authorized for it: the USDC transfer of the plan's price
\* from the smart wallet to the merchant.
C9_SameInstruction ==
  \A p \in PlanIds :
    LET f == execFlow[p]
    IN (InFlight(f) /\ "chunkArgs" \in DOMAIN f) =>
         /\ createFlow[p].pc = "done"
         /\ f.chunkArgs.cpiInstructions = createFlow[p].cpiInstructions
         /\ f.chunkArgs.cpiInstructions =
              <<CreateUsdcTransferIx(f.smartWalletPubkey, PublicKey(MERCHANT_WALLET),
                                     PlanOf(p).price)>>

C9_Witness ==
  \E p \in PlanIds :
    /\ execFlow[p].pc = "executeChunkTxn"
    /\ createFlow[p].pc = "done"
    /\ execFlow[p].chunkArgs.cpiInstructions[1].amount = BN(<<"digits", 50000>>)

(***************************************************************************)
(* Properties of the transfer page.                                        *)
(***************************************************************************)
\* a click on Send Transaction: the only step that changes the status or the
\* messages while no request is awaited
C10_Click ==
  /\ sendFlow.pc = "idle"
  /\ <<status, errorMsg, successMsg, sendFlow>>' # <<status, errorMsg, successMsg, sendFlow>>

\* the requests the claim is about: recipient empty, amount empty, zero or negative
C10_Rejected == recipient = "" \/ amount \in {"", "0", "-1"}

\* C10: when handleSend runs with an empty recipient or an empty, zero or
\* negative amount, no instruction is built, signAndSendTransaction is not
\* called, and the validation error message is recorded.
C10_InvalidRequestRejectedLocally ==
  [][(C10_Click /\ C10_Rejected) =>
       /\ sendFlow' = Idle
       /\ errorMsg' = Str("Enter valid recipient and amount")
       /\ signature' = signature
       /\ successMsg' = Null]_vars

C10_Witness ==
  /\ recipient = WellFormedAddress
  /\ amount = "0"
  /\ errorMsg = Str("Enter valid recipient and amount")
  /\ sendFlow = Idle
  /\ signature # Null

\* C11: when handleSend rejects a request in local validation it records
\* the message "Enter valid recipient and amount" and sets the status to
\* "error" before it returns.
C11_ValidationSetsErrorStatus ==
  [][(C10_Click /\ C10_Rejected) =>
       /\ errorMsg' = Str("Enter valid recipient and amount")
       /\ status' = "error"]_vars

\* a transfer attempt ends without success: at the click (validation, or
\* new PublicKey throwing) or when the awaited call rejects while the page
\* is open
C12_EndsWithoutSuccess ==
  \/ C10_Click /\ sendFlow'.pc = "idle"
  \/ transferOpen /\ sendFlow.pc # "idle" /\ sendFlow'.pc = "idle" /\ status' # "success"

\* C12: after a transfer attempt that ends without success nothing is
\* retried and the Send Transaction control is enabled again: the status is
\* not left at "sending".
C12_FailureReenablesSend ==
  [][C12_EndsWithoutSuccess => (sendFlow' = Idle /\ ~SendDisabled')]_vars

\* a validated transfer is rejected: new PublicKey throws at the click, or
\* the awaited signAndSendTransaction rejects while the page is open
C13_ValidatedRejected ==
  \/ C10_Click /\ ~C10_Rejected /\ sendFlow'.pc = "idle"
  \/ transferOpen /\ sendFlow.pc # "idle" /\ sendFlow'.pc = "idle" /\ status' # "success"

C13_ErrorMessages ==
  {Str("Invalid public key input"), Str("Transaction failed")}
    \cup {Str(message) : message \in RejectionMessages \ {""}}

\* C13: a rejection while a validated transfer is built or sent ends with
\* status "error" and a non-empty error message (the underlying one, else
\* "Transaction failed"), no success message, and the recipient, the amount
\* and the stored signature unchanged.
C13_RejectionCollapsesToError ==
  [][C13_ValidatedRejected =>
       /\ status' = "error"
       /\ errorMsg' \in C13_ErrorMessages
       /\ errorMsg' # Str("")
       /\ successMsg' = Null
       /\ recipient' = recipient
       /\ amount' = amount
       /\ signature' = signature]_vars

C13_Witness ==
  /\ status = "error"
  /\ errorMsg = Str("Transaction failed")
  /\ sendFlow = Idle
  /\ signature # Null
  /\ recipient = WellFormedAddress
  /\ amount = "0.5"

\* amount x 1,000,000,000 for the amounts of the exploration
C14_ExpectedLamports(a) == IF a = "0.5" THEN 500000000 ELSE 2000000000

C15_ConnectLifecycle ==
  /\ [][/\ (connectFlow.pc # "connect" /\ connectFlow'.pc = "connect") =>
             (WalletStatus = "disconnected" /\ WalletStatus' = "connecting")
        /\ (connectFlow.pc = "connect" /\ connectFlow'.pc # "connect") =>
             /\ WalletStatus = "connecting"
             /\ connectFlow'.pc = "returned"
             /\ IF connectFlow'.outcome = "resolved"
                  THEN /\ WalletStatus' = "connected"
                       /\ session'.smartWalletPubkey \in WalletKeys
                  ELSE /\ WalletStatus' = "disconnected"
                       /\ walletError' \in ConnectErrors]_vars
  /\ [](connectFlow.pc = "connect" => (WalletStatus = "connecting" /\ ~ConnectShown))

C15_Witness ==
  /\ connectFlow = [pc |-> "returned", outcome |-> "resolved"]
  /\ walletError \in ConnectErrors
  /\ AddressShown

(***************************************************************************)
(* Properties of the wallet details page.                                  *)
(***************************************************************************)
\* C16: during one mount connection.getBalance is called at most once; a
\* change of the wallet's connection, loading or public-key state never
\* triggers a query.
C16_AtMostOneQuery ==
  /\ [](balanceQueries <= 1)
  /\ [][(session' # session \/ walletFlags' # walletFlags) =>
          UNCHANGED <<balanceQueries, balanceFlow>>]_vars

C16_Witness ==
  /\ detailsOpen
  /\ balanceQueries = 1
  /\ balanceFlow.pc = "done"
  /\ ~session.isConnected

\* C17: on a mount on which the wallet is or becomes connected, the balance
\* query has been issued once the 100 ms mount delay has elapsed, and when
\* it has resolved the balance line has left "Loading..." and the fetched
\* balance is stored.
C17_QueryIssuedAfterMountDelay ==
  /\ (detailsOpen /\ isMounted /\ session.isConnected /\ session.smartWalletPubkey # Null)
       => balanceQueries >= 1
  /\ (detailsOpen /\ balanceFlow.pc = "done") =>
       /\ BalanceLine # "Loading..."
       /\ balance = SolOf(balanceFlow.lamports)

\* the balance line of a stored balance
C18_StaleLines == {ToFixed(Dec(lamports, 9), 4) \o " SOL" : lamports \in BalanceResults}

\* C18: when the balance query fails the stored balance keeps its value
\* (absent on first load), no retry is issued, and the balance line is left
\* at "Loading..." or shows the stale value.
C18_FailureLeavesLoadingOrStale ==
  (detailsOpen /\ balanceFlow.pc = "failed") =>
    /\ balance = Null
    /\ balanceQueries = 1
    /\ BalanceLine \in {"Loading..."} \cup C18_StaleLines

\* the balance divided by 1,000,000,000 with 4 decimal places, for the
\* balances of the exploration
C19_ExpectedLine(lamports) ==
  CASE lamports = 0 -> "0.0000 SOL"
    [] lamports = 1 -> "0.0000 SOL"
    [] lamports = 123456789 -> "0.1235 SOL"
    [] lamports = 1500000000 -> "1.5000 SOL"

\* C19: the balance line shows the queried lamports divided by
\* 1,000,000,000 with 4 decimal places; a queried balance of 0 is stored as
\* 0 and shown as "0.0000 SOL", not as "Loading...".
C19_BalanceFormatting ==
  (detailsOpen /\ balanceFlow.pc = "done") =>
    /\ balance = <<"number", balanceFlow.lamports, 9>>
    /\ BalanceLine = C19_ExpectedLine(balanceFlow.lamports)
    /\ balanceFlow.lamports = 0 => (balance[2] = 0 /\ BalanceLine = "0.0000 SOL")

C19_Witness ==
  /\ detailsOpen
  /\ balanceFlow = [pc |-> "done", lamports |-> 0]
  /\ BalanceLine = "0.0000 SOL"

\* ---------------------------------------------------------------------------
\* toTokenAmount

\* the arguments the conversion accepts
C20_ValidArguments ==
  /\ tokenAmount.num >= 0
  /\ tokenDecimals.num >= 0
  /\ tokenDecimals.scale <= 0 \/ tokenDecimals.num % Pow10(tokenDecimals.scale) = 0

\* amount * 10^decimals is below 10^21: it has at most 21 integer digits
C20_ProductBelow1e21 ==
  \/ tokenAmount.num = 0
  \/ NumDigits(tokenAmount.num) + IntegerOf(tokenDecimals) - tokenAmount.scale <= 21

\* n is an integer nearest to amount * 10^decimals, and dividing it by
\* 10^decimals gives the amount back when the amount has no more decimal
\* digits than decimals
C20_NearestAndRecovers(n) ==
  LET d == IntegerOf(tokenDecimals)
  IN IF tokenAmount.scale <= d
       THEN LET m == Pow10(d - tokenAmount.scale)
            IN n % m = 0 /\ n \div m = tokenAmount.num
       ELSE LET m == Pow10(tokenAmount.scale - d)
                diff == n * m - tokenAmount.num
            IN 2 * (IF diff < 0 THEN -diff ELSE diff) <= m

C21_UnmountStep ==
  (mounted /\ ~mounted') =>
     /\ createFlow' = createFlow
     /\ execFlow' = execFlow
     /\ timers' = timers

\* with the page left, what is pending can still complete
C21_StillResolves ==
  ~mounted =>
    /\ \A p \in PlanIds :
         /\ createFlow[p].pc = "signAndSend" =>
              ENABLED (CreateSendResolved(p) /\ UNCHANGED offSubscribe)
         /\ InFlight(createFlow[p]) =>
              ENABLED (CreateStepRejected(p) /\ UNCHANGED offSubscribe)
         /\ execFlow[p].pc = "signAndSend" =>
              ENABLED (ExecSendResolved(p) /\ UNCHANGED offSubscribe)
         /\ InFlight(execFlow[p]) =>
              ENABLED (ExecStepRejected(p) /\ UNCHANGED offSubscribe)
    /\ \A t \in timers :
         now >= t.due => ENABLED (TimerFires(t) /\ UNCHANGED offSubscribe)

\* C21: navigating away cancels nothing on the subscribe page: the step that
\* unmounts the page leaves every create flow, execute flow and reveal timer
\* as it was, and afterwards each of them can still run to its resolution
\* (whose state update goes to the unmounted component).
C21_NoCancellation == [][C21_UnmountStep]_vars /\ []C21_StillResolves

\* a mandate creation that succeeded after the page was left: its timer is
\* set, its state update was dropped
C21_Witness ==
  /\ ~mounted
  /\ \E p \in PlanIds :
       /\ createFlow[p].pc = "done"
       /\ ~HasSignature(Entry(planStates, p))
       /\ \E t \in timers : t.plan = p

\* a rejection that left its handler
C22_Escaped(f) == f.pc = "unhandledRejection"

\* the step in which an awaited call of a handler rejects
C22_RejectionStep ==
  /\ \A p \in PlanIds :
       (InFlight(createFlow[p]) /\ ~InFlight(createFlow'[p]) /\ createFlow'[p].pc # "done") =>
          /\ createFlow'[p] = Failed
          /\ mounted' = mounted
          /\ mounted => Lookup(Entry(planStates', p), "isCreatingMandate") = <<FALSE>>
  /\ \A p \in PlanIds :
       (InFlight(execFlow[p]) /\ ~InFlight(execFlow'[p]) /\ execFlow'[p].pc # "done") =>
          /\ execFlow'[p] = Failed
          /\ mounted' = mounted
          /\ mounted => Lookup(Entry(planStates', p), "isExecuting") = <<FALSE>>
  /\ (sendFlow.pc = "signAndSendTransaction" /\ sendFlow' = Idle /\ status' # "success") =>
          /\ transferOpen' = transferOpen
          /\ FormRendered' = FormRendered
          /\ transferOpen => (status' = "error" /\ errorMsg' # Null)
  /\ (connectFlow.pc = "connect" /\ connectFlow'.pc # "connect"
        /\ connectFlow'.outcome # "resolved") =>
          /\ connectFlow' = [pc |-> "returned", outcome |-> "rejected"]
          /\ route' = route
  /\ (balanceFlow.pc = "getBalance" /\ balanceFlow'.pc \notin {"getBalance", "done"}) =>
          /\ balanceFlow' = [pc |-> "failed"]
          /\ detailsOpen' = detailsOpen
          /\ detailsOpen => ~isLoadingBalance'

\* C22: a rejection of a call awaited by handleConnect, handleSend,
\* fetchBalance, createMandate or executePayment ends in the catch block of
\* that handler: the handler returns, the page stays as it is rendered, and
\* no rejection ever leaves a handler.
C22_RejectionsCaught ==
  /\ [][C22_RejectionStep]_vars
  /\ [](/\ \A p \in PlanIds : ~C22_Escaped(createFlow[p]) /\ ~C22_Escaped(execFlow[p])
        /\ ~C22_Escaped(sendFlow)
        /\ ~C22_Escaped(connectFlow)
        /\ ~C22_Escaped(balanceFlow))

\* an execution whose signAndSend rejected: the control is enabled again
C22_Witness ==
  \E p \in PlanIds :
    /\ execFlow[p] = Failed
    /\ mounted
    /\ ExecuteShown(p)
    /\ ~ExecuteDisabled(p)

\* the clients of the handler invocations in progress
C23_Clients ==
  {createFlow[p].lazorkitClient :
     p \in {q \in PlanIds : "lazorkitClient" \in DOMAIN createFlow[q]}}
  \cup {execFlow[p].lazorkitClient :
     p \in {q \in PlanIds : "lazorkitClient" \in DOMAIN execFlow[q]}}

\* C23: the connection handle is made at most once: once the module-level
\* variable holds a handle no step replaces it, it is the first handle ever
\* made, and every handler invocation, of createMandate or executePayment in
\* any order, got that same handle from getConnection.
C23_SingleConnection ==
  /\ [][connection # Null => connection' = connection]_vars
  /\ [](/\ connection \in {Null, NewConnection(1)}
        /\ \A client \in C23_Clients : client = LazorkitClient(connection))

\* a second invocation, an execution after the creation, was handed the
\* handle the first one made
C23_Witness ==
  /\ attempts = 2
  /\ \E p \in PlanIds :
       /\ InFlight(execFlow[p])
       /\ execFlow[p].lazorkitClient = LazorkitClient(NewConnection(1))

\* C24: whenever showExecuteButton of a plan is true a mandate signature is
\* recorded for that plan, so the Execute Payment control is only offered for
\* a plan whose mandate creation has succeeded, failed attempts and retries
\* included.
C24_ExecuteOnlyWithMandate ==
  \A p \in PlanIds :
    ExecuteShown(p) =>
      /\ HasSignature(RenderState(p))
      /\ createFlow[p].pc = "done"

\* the control is offered for a plan whose first attempt had failed
C24_Witness ==
  \E p \in PlanIds :
    /\ ExecuteShown(p)
    /\ attempts = 2
    /\ HasSignature(RenderState(p))

\* the step that starts a flow of plan p
C25_CreateStarts(p) == createFlow'[p].pc = "ix" /\ createFlow'[p] # createFlow[p]
C25_ExecuteStarts(p) == execFlow'[p].pc = "ix" /\ execFlow'[p] # execFlow[p]

C25_Step(p) ==
  /\ C25_CreateStarts(p) =>
       /\ ~InFlight(createFlow[p])
       /\ ~InFlight(execFlow[p])
       /\ ~HasSignature(RenderState(p))
       /\ createFlow[p].pc # "done"
  /\ C25_ExecuteStarts(p) =>
       /\ ~InFlight(execFlow[p])
       /\ ~InFlight(createFlow[p])
  /\ createFlow[p].pc = "done" => createFlow'[p] = createFlow[p]

C25_State(p) ==
  /\ ~(InFlight(createFlow[p]) /\ InFlight(execFlow[p]))
  /\ Cardinality({t \in timers : t.plan = p}) <= 1
  /\ (\E t \in timers : t.plan = p) => createFlow[p].pc = "done"
  /\ mounted =>
       /\ InFlight(createFlow[p]) => SubscribeDisabled(p)
       /\ HasSignature(RenderState(p)) => SubscribeDisabled(p)
       /\ createFlow[p].pc = "done" => SubscribeDisabled(p)
       /\ InFlight(execFlow[p]) => (ExecuteDisabled(p) /\ SubscribeDisabled(p))

\* C25: for each plan a create flow starts only when no create flow and no
\* execute flow of the plan is in flight and no mandate signature is recorded;
\* a succeeded creation stays the plan's only one and sets at most one reveal
\* timer; an execute flow starts only when none is in flight; a create flow
\* and an execute flow of one plan are never in flight together; while a flow
\* is in flight its control is disabled.
C25_OneFlowPerPlan ==
  /\ [][\A p \in PlanIds : C25_Step(p)]_vars
  /\ [](\A p \in PlanIds : C25_State(p))

\* an execution in flight on a plan with a created mandate: both controls of
\* the plan are disabled
C25_Witness ==
  \E p \in PlanIds :
    /\ mounted
    /\ InFlight(execFlow[p])
    /\ SubscribeDisabled(p)
    /\ ExecuteDisabled(p)
    /\ createFlow[p].pc = "done"

\* the plans whose entry a step changes, and the plans it acts for
C26_Changed == {p \in PlanIds : Entry(planStates', p) # Entry(planStates, p)}
C26_Acting ==
  {p \in PlanIds : createFlow'[p] # createFlow[p] \/ execFlow'[p] # execFlow[p]}
    \cup {t.plan : t \in timers \ timers'}

\* what the entry of plan p shows is what happened to plan p
C26_Reflects(p) ==
  LET e == RenderState(p)
  IN /\ IsTrue(e, "isCreatingMandate") <=> InFlight(createFlow[p])
     /\ IsTrue(e, "isExecuting") <=> InFlight(execFlow[p])
     /\ HasSignature(e) <=> createFlow[p].pc = "done"
     /\ IsTrue(e, "showExecuteButton") <=>
          (createFlow[p].pc = "done" /\ \A t \in timers : t.plan # p)

\* C26: flows of different plans interleave, and every update made for one
\* plan (start, success, failure, reveal) changes the entry of that plan only;
\* no completion order loses an update: at every moment each plan's entry
\* shows exactly that plan's own flows and outcomes (while the page is
\* mounted).
C26_PlansIndependent ==
  /\ [][C26_Changed \subseteq C26_Acting /\ Cardinality(C26_Changed) <= 1]_vars
  /\ [](\A p \in PlanIds : C26_Reflects(p))

\* two creations in flight together, each entry showing its own
C26_Witness ==
  \E p, q \in PlanIds :
    /\ p # q
    /\ createFlow[p].pc = "signAndSend"
    /\ createFlow[q].pc = "openSignMessage"
    /\ IsTrue(RenderState(p), "isCreatingMandate")
    /\ IsTrue(RenderState(q), "isCreatingMandate")

\* the keys of the entry of plan p that a step leaves as they were
C27_Kept(p, keys) ==
  \A k \in keys : Lookup(Entry(planStates', p), k) = Lookup(Entry(planStates, p), k)

C27_Step(p) ==
  /\ \A q \in PlanIds \ {p} :
       execFlow'[p] # execFlow[p] /\ createFlow' = createFlow /\ timers' = timers
         => Entry(planStates', q) = Entry(planStates, q)
  \* the start
  /\ execFlow'[p].pc = "ix" /\ execFlow[p].pc # "ix" =>
       /\ Lookup(Entry(planStates', p), "isExecuting") = <<TRUE>>
       /\ C27_Kept(p, {"mandateSignature", "expiresAt", "showExecuteButton",
                       "isCreatingMandate"})
  \* success
  /\ InFlight(execFlow[p]) /\ execFlow'[p].pc = "done" =>
       /\ Lookup(Entry(planStates', p), "isExecuting") = <<FALSE>>
       /\ Lookup(Entry(planStates', p), "mandateSignature") = <<(<<"signature", sigCount'>>)>>
       /\ Lookup(Entry(planStates', p), "mandateSignature")
            # Lookup(Entry(planStates, p), "mandateSignature")
       /\ C27_Kept(p, {"expiresAt", "showExecuteButton", "isCreatingMandate"})
  \* failure
  /\ InFlight(execFlow[p]) /\ execFlow'[p].pc = "failed" =>
       /\ Lookup(Entry(planStates', p), "isExecuting") = <<FALSE>>
       /\ C27_Kept(p, {"mandateSignature", "expiresAt", "showExecuteButton",
                       "isCreatingMandate"})
  \* between the awaits
  /\ InFlight(execFlow[p]) /\ InFlight(execFlow'[p]) /\ execFlow'[p] # execFlow[p] =>
       Entry(planStates', p) = Entry(planStates, p)

\* C27: executePayment writes isExecuting and mandateSignature of its plan
\* and nothing else: the start sets isExecuting, success clears it and puts
\* the signature of the execution transaction in place of the mandate's,
\* failure clears it and keeps the signature; expiresAt, showExecuteButton and
\* isCreatingMandate keep their values throughout.
C27_ExecuteFrame == [][\A p \in PlanIds : C27_Step(p)]_vars

\* a finished execution: the entry holds the second signature, the expiry of
\* the mandate and the revealed control
C27_Witness ==
  \E p \in PlanIds :
    /\ execFlow[p].pc = "done"
    /\ mounted
    /\ planStates[p].mandateSignature = <<"signature", 2>>
    /\ planStates[p].expiresAt > 0
    /\ planStates[p].showExecuteButton
    /\ ~planStates[p].isExecuting

\* no wallet public key, isConnected false, or no wallet record
C28_NotConnected ==
  session.smartWalletPubkey = Null \/ ~session.isConnected \/ session.wallet = Null

\* the step starts a handler invocation, or makes one of its writes or calls
C28_HandlerStarts ==
  \/ \E p \in PlanIds : C25_CreateStarts(p) \/ C25_ExecuteStarts(p)
  \/ attempts' # attempts
  \/ connection' # connection
  \/ \E p \in PlanIds :
       \/ /\ IsTrue(Entry(planStates', p), "isCreatingMandate")
          /\ ~IsTrue(Entry(planStates, p), "isCreatingMandate")
       \/ /\ IsTrue(Entry(planStates', p), "isExecuting")
          /\ ~IsTrue(Entry(planStates, p), "isExecuting")

\* a click on a control of the cards goes through: nothing stops the handler
\* from being called
C28_Clickable(p) == PlanCardsRendered /\ ~SubscribeDisabled(p) /\ MayStart
C28_ExecuteClickable(p) ==
  PlanCardsRendered /\ ExecuteShown(p) /\ ~ExecuteDisabled(p) /\ MayStart

\* C28: while the wallet is not connected (no wallet public key, isConnected
\* false or no wallet record) createMandate and executePayment return at
\* once: a click is taken, and no step starts a flow, sets an in-flight flag,
\* or calls getConnection, the SDK, the paymaster or the RPC node for a new
\* invocation.
C28_GuardedHandlers ==
  /\ [][C28_NotConnected => ~C28_HandlerStarts]_vars
  /\ [](\A p \in PlanIds :
          (C28_NotConnected /\ C28_Clickable(p)) =>
             /\ ENABLED (CreateMandate(p) /\ UNCHANGED offSubscribe)
             /\ ~ENABLED (CreateMandate(p) /\ UNCHANGED offSubscribe /\ subVars' # subVars))
  /\ [](\A p \in PlanIds :
          (C28_NotConnected /\ C28_ExecuteClickable(p)) =>
             /\ ENABLED (ExecutePayment(p) /\ UNCHANGED offSubscribe)
             /\ ~ENABLED (ExecutePayment(p) /\ UNCHANGED offSubscribe /\ subVars' # subVars))

\* the cards are shown (isConnected) while the wallet record is missing, after
\* an earlier attempt of the connected wallet
C28_Witness ==
  /\ C28_NotConnected
  /\ attempts = 1
  /\ \E p \in PlanIds : C28_Clickable(p)
  /\ \E p \in PlanIds : C28_ExecuteClickable(p)

(***************************************************************************)
(* Properties of the redirects and of the transfer page.                   *)
(***************************************************************************)
\* the 100 ms after the first render are over
C29_DelayElapsed == now - FirstRenderAt >= MOUNT_DELAY_MS \div 100

\* the wallet is not loading, not connected and not connecting
C29_WalletAway ==
  ~walletFlags.isLoading /\ ~session.isConnected /\ ~walletFlags.isConnecting

\* C29: the details page and the transfer page go to the wallet page only in
\* a step after which the 100 ms mount delay has elapsed (isMounted is set)
\* and the wallet is at once not loading, not connected and not connecting;
\* a page never leaves before the delay, nor while the wallet is connected,
\* connecting or loading.
C29_RedirectOnlyWhenAway ==
  [][/\ (detailsOpen /\ ~detailsOpen') =>
          (isMounted' /\ C29_DelayElapsed' /\ C29_WalletAway')
     /\ (transferOpen /\ ~transferOpen') =>
          (isMountedTransfer' /\ C29_DelayElapsed' /\ C29_WalletAway')]_vars

\* the transfer page has left for the wallet page after the session was lost
\* on the mounted page
C29_Witness ==
  /\ ~transferOpen
  /\ isMountedTransfer
  /\ status = "sending"
  /\ C29_WalletAway

\* a signAndSendTransaction call is awaited
C30_Pending == sendFlow.pc = "signAndSendTransaction"

\* C30: on the transfer page at most one signAndSendTransaction call is in
\* flight: a pending call is never joined or replaced by another, while it is
\* pending on the open page the status is "sending" and the Send Transaction
\* control is disabled, and the error message and the success message are
\* never both set.
C30_OneSendAtATime ==
  /\ [][C30_Pending => (sendFlow' = sendFlow \/ sendFlow' = Idle)]_vars
  /\ [](/\ (C30_Pending /\ transferOpen) => (status = "sending" /\ SendDisabled)
        /\ C30_Pending => ~ENABLED (HandleSend /\ UNCHANGED offTransfer)
        /\ ~(errorMsg # Null /\ successMsg # Null))

\* a second transfer pending after a first one succeeded: the form shows
\* neither message
C30_Witness ==
  /\ C30_Pending
  /\ FormRendered
  /\ SendDisabled
  /\ signature # Null
  /\ errorMsg = Null
  /\ successMsg = Null

====
